---- MODULE Spec2Model ----
(***************************************************************************)
(* A model of constrainedrandom.internal.randvar.RandVar: construction     *)
(* (__init__ and create_randomizer), the introspection queries             *)
(* (get_domain_size, can_use_with_constraint, get_constraint_domain) and   *)
(* sampling (randomize and randomize_once), the latter at the granularity  *)
(* of the loops' iterations.  The random source is a nondeterministic      *)
(* choice among the outcomes the call can have; the constraint package is  *)
(* the filter of a domain by the conjunction of the predicates.            *)
(***************************************************************************)
EXTENDS Integers, Sequences, FiniteSets, TLC

(***************************************************************************)
(* Bounds of the model.                                                    *)
(***************************************************************************)
\* Domain values run over 0..MaxVal.
MaxVal == 2
\* length is drawn from 0..MaxLength.
MaxLength == 2
\* max_iterations is drawn from 0..MaxIterations.
MaxIterations == 2

(***************************************************************************)
(* Python values.  An Optional is the empty tuple (None) or a 1-tuple.     *)
(***************************************************************************)
None == <<>>
Some(x) == <<x>>

Range(s) == {s[k] : k \in DOMAIN s}

RECURSIVE Pow(_, _)
\* n ** k of Python, for k >= 0.
Pow(n, k) == IF k = 0 THEN 1 ELSE n * Pow(n, k - 1)

RECURSIVE Sum(_)
Sum(s) == IF s = <<>> THEN 0 ELSE Head(s) + Sum(Tail(s))

(***************************************************************************)
(* Domains.  shape is the Python type of the object passed as domain:      *)
(*   "range"  range(start, stop, step), step > 0                           *)
(*   "list", "tuple"  the values in items                                  *)
(*   "dict"   a weighted-choice mapping, one entry per key: a scalar key   *)
(*            k is [lo |-> k, hi |-> k + 1, sub |-> FALSE], a sub-range    *)
(*            key range(lo, hi) has sub = TRUE                             *)
(*   "iter"   another Iterable that tuple() materializes to items          *)
(*   "baditer" an Iterable on which tuple() raises TypeError               *)
(*   "other"  not an Iterable                                              *)
(*   "none"   no domain (None)                                             *)
(***************************************************************************)
Dom(shape, start, stop, step, items, entries) ==
    [shape |-> shape, start |-> start, stop |-> stop, step |-> step,
     items |-> items, entries |-> entries]

NoDomain == Dom("none", 0, 0, 1, <<>>, <<>>)
PyRange(start, stop, step) == Dom("range", start, stop, step, <<>>, <<>>)
PyList(items) == Dom("list", 0, 0, 1, items, <<>>)
PyTuple(items) == Dom("tuple", 0, 0, 1, items, <<>>)
PyDict(entries) == Dom("dict", 0, 0, 1, <<>>, entries)
PyIter(items) == Dom("iter", 0, 0, 1, items, <<>>)
BadIter == Dom("baditer", 0, 0, 1, <<>>, <<>>)
NotIterable == Dom("other", 0, 0, 1, <<>>, <<>>)

Key(k, w) == [lo |-> k, hi |-> k + 1, sub |-> FALSE, weight |-> w]
SubRange(lo, hi, w) == [lo |-> lo, hi |-> hi, sub |-> TRUE, weight |-> w]

\* len(range(start, stop, step)) for step > 0.
RangeLen(start, stop, step) ==
    IF stop <= start THEN 0 ELSE ((stop - start - 1) \div step) + 1

\* list(range(start, stop, step)).
RangeSeq(start, stop, step) ==
    [k \in 1..RangeLen(start, stop, step) |-> start + (k - 1) * step]

\* len(self.domain).
DomainLen(d) ==
    CASE d.shape = "range" -> RangeLen(d.start, d.stop, d.step)
      [] d.shape = "dict" -> Len(d.entries)
      [] OTHER -> Len(d.items)

\* What len(self.domain) raises ("" when it returns): an object that is not
\* a sized container has no len().
LenError(d) == IF d.shape \in {"range", "list", "tuple", "dict"} THEN "" ELSE "TypeError"

\* The values "for x in self.domain" yields, in order (range, list, tuple).
DomainSeq(d) ==
    IF d.shape = "range" THEN RangeSeq(d.start, d.stop, d.step) ELSE d.items

(***************************************************************************)
(* Constraints are user callables; the model names a few.                  *)
(***************************************************************************)
\* Per-value predicates.
Holds(con, x) ==
    CASE con = "nonzero" -> x # 0
      [] con = "is_zero" -> x = 0
      [] con = "lt_two" -> x < 2

\* Whole-list predicates.
ListHolds(con, l) ==
    CASE con = "sum_ge_2" -> Sum(l) >= 2
      [] con = "sum_le_1" -> Sum(l) <= 1

AllHold(cons, x) == \A k \in DOMAIN cons : Holds(cons[k], x)
AllListHold(cons, l) == \A k \in DOMAIN cons : ListHolds(cons[k], l)

(***************************************************************************)
(* The constraint package on one variable: problem.addVariable(name, dom), *)
(* problem.addConstraint(con, (name,)) for each con.                       *)
(***************************************************************************)
\* getSolutions that lets every value through.
getSolutionsUnfiltered(dom, cons) == dom

\* problem.getSolutions(): the values of dom that pass every constraint.
getSolutions(dom, cons) == SelectSeq(dom, LAMBDA x : AllHold(cons, x))
\* getListSolutions that lets every candidate through.
getListSolutionsUnfiltered(dom, cons) == dom

\* The same over candidate lists and whole-list constraints.
getListSolutions(dom, cons) == SelectSeq(dom, LAMBDA l : AllListHold(cons, l))

(***************************************************************************)
(* The random source and the generator functions.                          *)
(***************************************************************************)
\* The result of one call of fn on args: custom_fn(arg) returns arg + 1; coin_fn()
\* is a generator of the caller's that returns 0 or 1.
FnOutcomes(fn, args) ==
    CASE fn = Some("custom_fn") -> {args[1][1] + 1}
      [] fn = Some("coin_fn") -> {0, 1}
      [] OTHER -> {}

\* dist(domain, random): an entry is drawn with probability proportional to
\* its weight, then a value uniformly within it.
dist(entries) ==
    UNION {e.lo .. (e.hi - 1) : e \in {x \in Range(entries) : x.weight > 0}}

\* random.randrange(start, stop).
randrange(start, stop) == start .. (stop - 1)

\* random.choice(seq).
choice(seq) == Range(seq)

\* random.getrandbits(k).
getrandbits(k) == 0 .. (Pow(2, k) - 1)

\* The sampler create_randomizer returns: a partial with its bound arguments.
Randomizer(kind, fn, args, a, b, seq, entries) ==
    [kind |-> kind, fn |-> fn, args |-> args, a |-> a, b |-> b,
     seq |-> seq, entries |-> entries]

NoRandomizer == Randomizer("none", None, None, 0, 0, <<>>, <<>>)

\* The values one call self.randomizer() can return.
RandomizerOutcomes(r) ==
    CASE r.kind = "fn" -> FnOutcomes(r.fn, r.args)
      [] r.kind = "bits" -> getrandbits(r.a)
      [] r.kind = "pool" -> choice(r.seq)
      [] r.kind = "range" -> randrange(r.a, r.b)
      [] r.kind = "choice" -> choice(r.seq)
      [] r.kind = "dist" -> dist(r.entries)
      [] OTHER -> {}

\* What self.randomizer() raises when it can return nothing: choice of an
\* empty sequence is an IndexError, randrange of an empty range a ValueError.
RandomizerError(r) ==
    IF r.kind \in {"pool", "choice"} THEN "IndexError" ELSE "ValueError"

(***************************************************************************)
(* Construction.                                                           *)
(***************************************************************************)
\* The constraints / list_constraints argument: None, one bare callable, a
\* tuple or a list.  items holds the callables.
ConsArg(kind, items) == [kind |-> kind, items |-> items]

\* __init__'s normalisation of constraints and list_constraints.
NormalizeConstraints(arg) ==
    CASE arg.kind = "none" -> <<>>
      [] arg.kind = "callable" -> <<arg.items[1]>>
      [] OTHER -> arg.items

\* The assertion on domain, bits and fn.
ExactlyOneAssert(domain, bits, fn) ==
    ((domain # NoDomain) # (fn # None)) # (bits # None)

\* BitsDomain with the last value of the width left out.
BitsDomainShort(bits) == PyRange(0, Pow(2, bits) - 1, 1)

\* The domain create_randomizer sets for bits.
BitsDomain(bits) == PyRange(0, Pow(2, bits), 1)

\* RangeRandomizer with the stop of the range taken as a value to draw.
RangeRandomizerInclusive(dom) ==
    Randomizer("range", None, None, dom.start, dom.stop + 1, <<>>, <<>>)

\* The sampler create_randomizer returns for a range:
\* partial(randrange, self.domain.start, self.domain.stop).
RangeRandomizer(dom) ==
    Randomizer("range", None, None, dom.start, dom.stop, <<>>, <<>>)

\* create_randomizer, on the fields __init__ has set: the error it raises
\* ("" when none), and self.domain, self.check_constraints and the sampler
\* after it.
create_randomizer(domain, bits, fn, args, constraints, check_constraints, max_domain_size) ==
    LET out(err, d, cc, r) ==
            [error |-> err, domain |-> d, check_constraints |-> cc, randomizer |-> r]
        is_range == domain.shape = "range"
        is_dict == domain.shape = "dict"
        is_iterable == domain.shape \in {"range", "list", "tuple", "dict", "iter", "baditer"}
        convert == is_iterable /\ domain.shape \in {"iter", "baditer"}
        dom == IF domain.shape = "iter" THEN PyTuple(domain.items) ELSE domain
        is_list_or_tuple == dom.shape \in {"list", "tuple"}
    IN  IF fn # None
        THEN out("", domain, check_constraints,
                 Randomizer("fn", fn, args, 0, 0, <<>>, <<>>))
        ELSE IF bits # None
        THEN out("", BitsDomain(bits[1]), check_constraints,
                 Randomizer("bits", None, None, bits[1], 0, <<>>, <<>>))
        ELSE IF convert /\ domain.shape = "baditer"
        THEN out("TypeError", domain, check_constraints, NoRandomizer)
        ELSE IF check_constraints /\ (is_range \/ is_list_or_tuple)
                /\ DomainLen(dom) < max_domain_size
        THEN out("", dom, FALSE,
                 Randomizer("pool", None, None, 0, 0,
                            getSolutions(DomainSeq(dom), constraints), <<>>))
        ELSE IF is_range
        THEN out("", dom, check_constraints, RangeRandomizer(dom))
        ELSE IF is_list_or_tuple
        THEN out("", dom, check_constraints,
                 Randomizer("choice", None, None, 0, 0, dom.items, <<>>))
        ELSE IF is_dict
        THEN out("", dom, check_constraints,
                 Randomizer("dist", None, None, 0, 0, <<>>, dom.entries))
        ELSE out("TypeError", dom, check_constraints, NoRandomizer)

(***************************************************************************)
(* Introspection.                                                          *)
(***************************************************************************)
\* get_domain_size with the product in place of the power.
get_domain_size_product(domain, length) ==
    IF domain = NoDomain
    THEN 1
    ELSE IF length = 0 \/ length = 1
    THEN DomainLen(domain)
    ELSE DomainLen(domain) * length

\* get_domain_size.
get_domain_size(domain, length) ==
    IF domain = NoDomain
    THEN 1
    ELSE IF length = 0 \/ length = 1
    THEN DomainLen(domain)
    ELSE Pow(DomainLen(domain), length)

\* can_use_with_constraint.
can_use_with_constraint(domain) == domain # NoDomain /\ domain.shape # "dict"

\* What "for x in self.domain" yields, in order: the values of a range, list
\* or tuple, the keys of a mapping.
IterDomain(domain) ==
    IF domain.shape = "dict"
    THEN [k \in DOMAIN domain.entries |->
            [lo |-> domain.entries[k].lo, hi |-> domain.entries[k].hi,
             sub |-> domain.entries[k].sub]]
    ELSE DomainSeq(domain)

RECURSIVE product(_, _)
\* itertools.product(seq, repeat=repeat), as the list of its tuples in the
\* order it yields them (the last position varies fastest).
product(seq, repeat) ==
    IF repeat = 0
    THEN << <<>> >>
    ELSE LET rest == product(seq, repeat - 1)
             n == Len(rest)
         IN  [j \in 1..(Len(seq) * n) |->
                <<seq[((j - 1) \div n) + 1]>> \o rest[((j - 1) % n) + 1]]

\* What get_constraint_domain returns or raises: kind "domain" is the domain
\* object itself, "list" a list and "product" an itertools.product, both
\* with their elements in items.
ConstraintDomain(kind, domain, items, error) ==
    [kind |-> kind, domain |-> domain, items |-> items, error |-> error]

NoConstraintDomain == ConstraintDomain("none", NoDomain, <<>>, "")

\* get_constraint_domain with the product one copy short.
get_constraint_domain_short(domain, length) ==
    IF length = 0
    THEN ConstraintDomain("domain", domain, <<>>, "")
    ELSE IF domain.shape \in {"none", "other"}
    THEN ConstraintDomain("none", NoDomain, <<>>, "TypeError")
    ELSE ConstraintDomain("product", NoDomain, product(IterDomain(domain), length - 1), "")

\* get_constraint_domain: iterating an object that is not iterable (None
\* among them) raises TypeError.
get_constraint_domain(domain, length) ==
    IF length = 0
    THEN ConstraintDomain("domain", domain, <<>>, "")
    ELSE IF domain.shape \in {"none", "other"}
    THEN ConstraintDomain("none", NoDomain, <<>>, "TypeError")
    ELSE IF length = 1
    THEN ConstraintDomain("list", NoDomain,
                          [k \in DOMAIN IterDomain(domain) |-> <<IterDomain(domain)[k]>>], "")
    ELSE ConstraintDomain("product", NoDomain, product(IterDomain(domain), length), "")

(***************************************************************************)
(* The inputs the model draws.                                             *)
(***************************************************************************)
Decl(domain, bits, fn, args) ==
    [domain |-> domain, bits |-> bits, fn |-> fn, args |-> args]

DomainChoices ==
    { PyRange(0, MaxVal + 1, 1), PyRange(1, MaxVal + 1, 1), PyRange(0, MaxVal + 1, 2),
      PyList(RangeSeq(0, MaxVal + 1, 1)), PyTuple(<<0, 0, 1>>),
      PyDict(<<Key(0, 1), SubRange(1, MaxVal + 1, 1)>>),
      PyIter(<<1, 2>>), BadIter, NotIterable }

BitsChoices == {0, 1, 2}

\* fn with its args: custom_fn of test_basic with one argument, coin_fn alone.
FnChoices == { <<Some("custom_fn"), Some(<<1>>)>>, <<Some("coin_fn"), None>> }

\* Declarations that name exactly one of domain, bits and fn.
SingleDecls ==
    {Decl(d, None, None, None) : d \in DomainChoices}
    \cup {Decl(NoDomain, Some(b), None, None) : b \in BitsChoices}
    \cup {Decl(NoDomain, None, f[1], f[2]) : f \in FnChoices}

\* Declarations that name none, two or three of them, or args without fn.
OtherDecls ==
    LET d == PyRange(0, MaxVal + 1, 1)
        b == Some(1)
        f == Some("custom_fn")
        a == Some(<<1>>)
    IN  { Decl(NoDomain, None, None, None), Decl(d, b, None, None),
          Decl(d, None, f, a), Decl(NoDomain, b, f, a), Decl(d, b, f, a),
          Decl(NotIterable, b, f, a), Decl(d, None, None, a) }

Decls == SingleDecls \cup OtherDecls

ConstraintArgs ==
    { ConsArg("none", <<>>), ConsArg("callable", <<"nonzero">>),
      ConsArg("tuple", <<"nonzero">>), ConsArg("list", <<"is_zero">>),
      ConsArg("list", <<"nonzero", "lt_two">>) }

ListConstraintArgs ==
    { ConsArg("none", <<>>), ConsArg("callable", <<"sum_ge_2">>),
      ConsArg("list", <<"sum_le_1">>) }

\* temp_constraints of one randomize call.
TempChoices == { None, Some(<<>>), Some(<<"lt_two">>), Some(<<"is_zero">>) }

MaxDomainSizes == {MaxVal + 1, MaxVal + 2}

(***************************************************************************)
(* State.                                                                  *)
(*   pc      where the program is: "new" before the constructor runs,      *)
(*           "raised" when the constructor raised, "idle" between calls of *)
(*           randomize, and inside a call "once" (randomize_once entered), *)
(*           "once_while" (head of its while loop), "for" (head of the for *)
(*           loop of randomize), "list_while" (head of its while loop)     *)
(*   given   the arguments domain, bits, fn, args of the constructor call  *)
(*   self    the RandVar's fields                                          *)
(*   frame   the locals of the running randomize call, with the number of  *)
(*           randomize_once calls (samples) and of whole-list checks made  *)
(*           for the position i                                            *)
(*   once    the locals of the running randomize_once call, with the       *)
(*           number of sampler calls and of constraint checks it has made  *)
(*   stats   the same counts over the whole randomize call                 *)
(*   result  how the last finished call (constructor or randomize) ended   *)
(***************************************************************************)
VARIABLES pc, given, self, frame, once, stats, result

vars == <<pc, given, self, frame, once, stats, result>>

NoSelf ==
    [length |-> 0, max_iterations |-> 0, max_domain_size |-> 0,
     domain |-> NoDomain, bits |-> None, fn |-> None, args |-> None,
     constraints |-> <<>>, list_constraints |-> <<>>,
     check_constraints |-> FALSE, randomizer |-> NoRandomizer]

NoFrame ==
    [temp_constraints |-> None, check_constraints |-> FALSE, constraints |-> <<>>,
     values |-> <<>>, check_list_constraints |-> FALSE, use_csp |-> FALSE,
     i |-> 0, new_value |-> 0, values_valid |-> FALSE, iterations |-> 0,
     samples |-> 0, checks |-> 0]

NoOnce ==
    [site |-> "", value |-> 0, value_valid |-> FALSE, iterations |-> 0,
     draws |-> 0, checks |-> 0]

NoStats == [draws |-> 0, checks |-> 0, list_checks |-> 0, csp_steps |-> 0]

\* How a call ended: kind is "none" (no call has ended, or one is running),
\* "return", "raise", "size" (get_domain_size returned scalar) or
\* "constraint_domain" (get_constraint_domain returned or raised candidates);
\* temp_constraints is the argument of the randomize call that ended.
Result(kind, is_list, scalar, list, error) ==
    [kind |-> kind, is_list |-> is_list, scalar |-> scalar, list |-> list,
     error |-> error, temp_constraints |-> None, candidates |-> NoConstraintDomain]

NoResult == Result("none", FALSE, 0, <<>>, "")
ReturnScalar(v) == Result("return", FALSE, v, <<>>, "")
\* ReturnList that hands a list of one element back as the bare element.
ReturnListUnwrapped(l) ==
    IF Len(l) = 1 THEN ReturnScalar(l[1]) ELSE Result("return", TRUE, 0, l, "")

ReturnList(l) == Result("return", TRUE, 0, l, "")
Raise(e) == Result("raise", FALSE, 0, <<>>, e)

Init ==
    /\ pc = "new"
    /\ given = Decl(NoDomain, None, None, None)
    /\ self = NoSelf
    /\ frame = NoFrame
    /\ once = NoOnce
    /\ stats = NoStats
    /\ result = NoResult

(***************************************************************************)
(* RandVar.__init__                                                        *)
(***************************************************************************)
\* __init__: the error it raises ("" when none) and the object it builds.
RandVar_init(decl, constraints, list_constraints, length, max_iterations, max_domain_size) ==
    LET cons == NormalizeConstraints(constraints)
        lcons == NormalizeConstraints(list_constraints)
        cc == Len(cons) > 0 \/ Len(lcons) > 0
        cr == create_randomizer(decl.domain, decl.bits, decl.fn, decl.args,
                                cons, cc, max_domain_size)
    IN  IF ~ExactlyOneAssert(decl.domain, decl.bits, decl.fn)
        THEN [error |-> "AssertionError", self |-> NoSelf]
        ELSE IF decl.fn = None /\ decl.args # None
        THEN [error |-> "AssertionError", self |-> NoSelf]
        ELSE IF cr.error # ""
        THEN [error |-> cr.error, self |-> NoSelf]
        ELSE [error |-> "",
              self |-> [length |-> length, max_iterations |-> max_iterations,
                        max_domain_size |-> max_domain_size,
                        domain |-> cr.domain, bits |-> decl.bits,
                        fn |-> decl.fn, args |-> decl.args,
                        constraints |-> cons, list_constraints |-> lcons,
                        check_constraints |-> cr.check_constraints,
                        randomizer |-> cr.randomizer]]

Construct ==
    /\ pc = "new"
    /\ \E decl \in Decls, constraints \in ConstraintArgs,
          list_constraints \in ListConstraintArgs, length \in 0..MaxLength,
          max_iterations \in 0..MaxIterations, max_domain_size \in MaxDomainSizes :
          LET r == RandVar_init(decl, constraints, list_constraints, length,
                        max_iterations, max_domain_size)
          IN  /\ given' = decl
              /\ self' = r.self
              /\ pc' = IF r.error = "" THEN "idle" ELSE "raised"
              /\ result' = IF r.error = "" THEN NoResult ELSE Raise(r.error)
    /\ UNCHANGED <<frame, once, stats>>

(***************************************************************************)
(* RandVar.randomize and RandVar.randomize_once                            *)
(***************************************************************************)
HasTemp(temp_constraints) == temp_constraints # None /\ Len(temp_constraints[1]) > 0

\* The local constraints of randomize: a copy of self.constraints, with the
\* temporary ones added.
LocalConstraints(constraints, temp_constraints) ==
    IF HasTemp(temp_constraints) THEN constraints \o temp_constraints[1] ELSE constraints

\* LocalCheck that asks for the check whatever the variable says.
LocalCheckAlways(check_constraints, temp_constraints) == TRUE

\* The local check_constraints of randomize.
LocalCheck(check_constraints, temp_constraints) ==
    IF HasTemp(temp_constraints) THEN TRUE ELSE check_constraints

\* SelfConstraintsAfter when the local list is self.constraints itself and not
\* a copy: the temporary constraints are added to the variable's.
SelfConstraintsAliased(constraints, temp_constraints) ==
    LocalConstraints(constraints, temp_constraints)

\* self.constraints once randomize has built its local list: the local list
\* is a copy, so adding to it leaves self.constraints as it was.
SelfConstraintsAfter(constraints, temp_constraints) == constraints

\* UseCsp that takes a domain of max_domain_size entries too.
UseCspInclusive(s) ==
    /\ Len(s.list_constraints) > 0
    /\ can_use_with_constraint(s.domain)
    /\ DomainLen(s.domain) <= s.max_domain_size

\* use_csp of randomize.
UseCsp(s) ==
    /\ Len(s.list_constraints) > 0
    /\ can_use_with_constraint(s.domain)
    /\ DomainLen(s.domain) < s.max_domain_size

\* What the evaluation of use_csp raises ("" when nothing): len(self.domain)
\* is reached when the operands before it are true.
UseCspError(s) ==
    IF Len(s.list_constraints) > 0 /\ can_use_with_constraint(s.domain)
    THEN LenError(s.domain)
    ELSE ""

\* The call ends: it returns or raises res.
Finish(res) ==
    /\ pc' = "idle"
    /\ result' = [res EXCEPT !.temp_constraints = frame.temp_constraints]
    /\ frame' = NoFrame
    /\ once' = NoOnce

\* randomize_once(constraints, check_constraints) is entered from site.
CallOnce(site) ==
    /\ pc' = "once"
    /\ once' = [NoOnce EXCEPT !.site = site]

\* FirstValuesValid that exempts every position, not the first alone.
FirstValuesValidAnywhere(check_list_constraints, i) == ~check_list_constraints \/ i >= 0

\* values_valid as set after the first sample of a position:
\* not check_list_constraints or i == 0.
FirstValuesValid(check_list_constraints, i) == ~check_list_constraints \/ i = 0

\* randomize_once returns v to the site that called it: the return statement
\* of a scalar, the one-element list, or the assignment to new_value before
\* or inside the while loop over the list constraints.
OnceReturn(v) ==
    CASE once.site = "scalar" -> Finish(ReturnScalar(v))
      [] once.site = "single" -> Finish(ReturnList(<<v>>))
      [] once.site = "first" ->
            /\ pc' = "list_while"
            /\ frame' = [frame EXCEPT !.new_value = v,
                                      !.values_valid = FirstValuesValid(frame.check_list_constraints, frame.i),
                                      !.iterations = 0,
                                      !.samples = 1,
                                      !.checks = 0]
            /\ once' = NoOnce
            /\ UNCHANGED result
      [] once.site = "retry" ->
            /\ pc' = "list_while"
            /\ frame' = [frame EXCEPT !.new_value = v,
                                      !.iterations = frame.iterations + 1,
                                      !.samples = frame.samples + 1]
            /\ once' = NoOnce
            /\ UNCHANGED result

\* randomize, up to the first call of randomize_once or the head of the for
\* loop, or to the TypeError of len(self.domain) in use_csp.
randomize ==
    /\ pc = "idle"
    /\ \E temp_constraints \in TempChoices :
          /\ frame' = IF self.length > 1 /\ UseCspError(self) # ""
                      THEN NoFrame
                      ELSE [NoFrame EXCEPT
                         !.temp_constraints = temp_constraints,
                         !.check_constraints = LocalCheck(self.check_constraints, temp_constraints),
                         !.constraints = LocalConstraints(self.constraints, temp_constraints),
                         !.check_list_constraints = self.length > 1 /\ Len(self.list_constraints) > 0,
                         !.use_csp = self.length > 1 /\ UseCsp(self)]
          /\ self' = [self EXCEPT
                        !.constraints = SelfConstraintsAfter(self.constraints, temp_constraints)]
          /\ result' = IF self.length > 1 /\ UseCspError(self) # ""
                       THEN [Raise(UseCspError(self)) EXCEPT !.temp_constraints = temp_constraints]
                       ELSE NoResult
    /\ IF self.length = 0 THEN CallOnce("scalar")
       ELSE IF self.length = 1 THEN CallOnce("single")
       ELSE IF UseCspError(self) # "" THEN pc' = "idle" /\ once' = NoOnce
       ELSE pc' = "for" /\ once' = NoOnce
    /\ stats' = NoStats
    /\ UNCHANGED given

\* TooManyIterations that gives up one iteration later.
TooManyIterationsLate(iterations, max_iterations) == iterations = max_iterations + 1

\* The test at the head of the body of both while loops:
\* iterations == self.max_iterations.
TooManyIterations(iterations, max_iterations) == iterations = max_iterations

\* randomize_once: the first draw, and the return when nothing is checked.
once_draw ==
    /\ pc = "once"
    /\ IF RandomizerOutcomes(self.randomizer) = {}
       THEN /\ Finish(Raise(RandomizerError(self.randomizer)))
            /\ UNCHANGED stats
       ELSE \E value \in RandomizerOutcomes(self.randomizer) :
              /\ stats' = [stats EXCEPT !.draws = stats.draws + 1]
              /\ IF ~frame.check_constraints
                 THEN OnceReturn(value)
                 ELSE /\ pc' = "once_while"
                      /\ once' = [once EXCEPT !.value = value, !.draws = 1]
                      /\ UNCHANGED <<frame, result>>
    /\ UNCHANGED <<given, self>>

\* randomize_once: one pass through the head and the body of its while loop.
once_while ==
    /\ pc = "once_while"
    /\ IF once.value_valid
       THEN OnceReturn(once.value) /\ UNCHANGED stats
       ELSE IF TooManyIterations(once.iterations, self.max_iterations)
       THEN Finish(Raise("RandomizationError")) /\ UNCHANGED stats
       ELSE IF AllHold(frame.constraints, once.value)
       THEN /\ once' = [once EXCEPT !.value_valid = TRUE,
                                    !.iterations = once.iterations + 1,
                                    !.checks = once.checks + 1]
            /\ stats' = [stats EXCEPT !.checks = stats.checks + 1]
            /\ UNCHANGED <<pc, frame, result>>
       ELSE \E value \in RandomizerOutcomes(self.randomizer) :
              /\ once' = [once EXCEPT !.value = value,
                                      !.iterations = once.iterations + 1,
                                      !.checks = once.checks + 1,
                                      !.draws = once.draws + 1]
              /\ stats' = [stats EXCEPT !.checks = stats.checks + 1,
                                        !.draws = stats.draws + 1]
              /\ UNCHANGED <<pc, frame, result>>
    /\ UNCHANGED <<given, self>>

\* PossibleValues that starts every candidate from an empty list and not
\* from a copy of the list so far.
PossibleValuesFresh(domain, values) ==
    [k \in 1..Len(DomainSeq(domain)) |-> <<DomainSeq(domain)[k]>>]

\* The candidate lists of one step of the exhaustive strategy: the list so
\* far extended by each value of the domain.
PossibleValues(domain, values) ==
    [k \in 1..Len(DomainSeq(domain)) |-> Append(values, DomainSeq(domain)[k])]

\* Unsolvable that gives up when a single solution is left, too.
UnsolvableBelowTwo(solutions) == Len(solutions) <= 1

\* The test of the dead end: len(solutions) == 0.
Unsolvable(solutions) == Len(solutions) = 0

\* randomize: one pass of the for loop on the exhaustive (use_csp) branch.
csp_step ==
    /\ pc = "for"
    /\ frame.i < self.length
    /\ frame.use_csp
    /\ LET solutions == getListSolutions(PossibleValues(self.domain, frame.values),
                                         self.list_constraints)
       IN  IF Unsolvable(solutions)
           THEN Finish(Raise("RandomizationError")) /\ UNCHANGED stats
           ELSE /\ \E values \in choice(solutions) :
                     frame' = [frame EXCEPT !.values = values, !.i = frame.i + 1]
                /\ stats' = [stats EXCEPT !.csp_steps = stats.csp_steps + 1]
                /\ UNCHANGED <<pc, once, result>>
    /\ UNCHANGED <<given, self>>

\* randomize: a pass of the for loop on the other branch enters randomize_once.
retry_step ==
    /\ pc = "for"
    /\ frame.i < self.length
    /\ ~frame.use_csp
    /\ CallOnce("first")
    /\ UNCHANGED <<given, self, frame, stats, result>>

\* randomize: one pass through the head and the body of the while loop over
\* the list constraints, and the append that follows the loop.
list_while ==
    /\ pc = "list_while"
    /\ IF frame.values_valid
       THEN /\ frame' = [frame EXCEPT !.values = Append(frame.values, frame.new_value),
                                      !.i = frame.i + 1]
            /\ pc' = "for"
            /\ UNCHANGED <<once, stats, result>>
       ELSE IF TooManyIterations(frame.iterations, self.max_iterations)
       THEN Finish(Raise("RandomizationError")) /\ UNCHANGED stats
       ELSE /\ stats' = [stats EXCEPT !.list_checks = stats.list_checks + 1]
            /\ IF AllListHold(self.list_constraints, frame.values \o <<frame.new_value>>)
               THEN /\ frame' = [frame EXCEPT !.values_valid = TRUE,
                                              !.checks = frame.checks + 1]
                    /\ UNCHANGED <<pc, once, result>>
               ELSE /\ CallOnce("retry")
                    /\ frame' = [frame EXCEPT !.checks = frame.checks + 1]
                    /\ UNCHANGED result
    /\ UNCHANGED <<given, self>>

\* randomize: the for loop is over, the list is returned.
return_values ==
    /\ pc = "for"
    /\ frame.i = self.length
    /\ Finish(ReturnList(frame.values))
    /\ UNCHANGED <<given, self, stats>>

\* A call of get_domain_size between two calls of randomize.
domain_size ==
    /\ pc = "idle"
    /\ result' = IF self.domain # NoDomain /\ LenError(self.domain) # ""
                 THEN Result("size", FALSE, 0, <<>>, LenError(self.domain))
                 ELSE Result("size", FALSE, get_domain_size(self.domain, self.length), <<>>, "")
    /\ UNCHANGED <<pc, given, self, frame, once, stats>>

\* A call of get_constraint_domain between two calls of randomize.
constraint_domain ==
    /\ pc = "idle"
    /\ result' = [Result("constraint_domain", FALSE, 0, <<>>, "") EXCEPT
                    !.candidates = get_constraint_domain(self.domain, self.length)]
    /\ UNCHANGED <<pc, given, self, frame, once, stats>>

Next ==
    \/ Construct
    \/ domain_size
    \/ constraint_domain
    \/ randomize
    \/ once_draw
    \/ once_while
    \/ csp_step
    \/ retry_step
    \/ list_while
    \/ return_values

Spec == Init /\ [][Next]_vars

\* A step of a running call of randomize.
CallStep ==
    once_draw \/ once_while \/ csp_step \/ retry_step \/ list_while \/ return_values

\* The interpreter runs a call it has entered to its end: a call that can
\* take a step takes one.  Whether the caller constructs an object or calls
\* a method at all is left open.
FairSpec == Spec /\ WF_vars(CallStep)

(***************************************************************************)
(* Vocabulary of the properties.                                           *)
(***************************************************************************)
\* A call of randomize has ended by returning a value.
Returned == pc = "idle" /\ result.kind = "return"

\* A call of randomize has ended, by returning or by raising.
CallEnded == pc = "idle" /\ result.kind \in {"return", "raise"}

\* The constructor has built the object.
Built == pc \notin {"new", "raised"}

\* The values a returned result holds: the scalar, or the elements of the list.
ResultValues == IF result.is_list THEN Range(result.list) ELSE {result.scalar}

\* The set of legal values of the domain the object holds.
DomainValues(d) ==
    CASE d.shape = "range" -> {d.start + k * d.step : k \in 0..(d.stop - d.start)} \cap (d.start .. (d.stop - 1))
      [] d.shape = "dict" -> UNION {e.lo .. (e.hi - 1) : e \in Range(d.entries)}
      [] OTHER -> Range(d.items)

\* How many of domain, bits and fn the caller supplied.
Supplied ==
    (IF given.domain # NoDomain THEN 1 ELSE 0) + (IF given.bits # None THEN 1 ELSE 0)
    + (IF given.fn # None THEN 1 ELSE 0)

(***************************************************************************)
(* C1.  Every value randomize returns for a variable with per-value        *)
(* constraints satisfies every one of them: the scalar when length = 0,    *)
(* every element of the list when length >= 1, list constraints or not.    *)
(* The code breaks it on the exhaustive list branch, which draws the       *)
(* elements from the whole domain and checks the list constraints only.    *)
(***************************************************************************)
C1_PerValueConstraintsHold ==
    (Returned /\ Len(self.constraints) > 0)
        => \A x \in ResultValues : AllHold(self.constraints, x)

(***************************************************************************)
(* C2.  Every list randomize returns for a list variable (length >= 1)     *)
(* with whole-list constraints is a list of length elements that satisfies *)
(* every whole-list constraint.  The code breaks it for length = 1, where  *)
(* the list constraints are never evaluated.                               *)
(***************************************************************************)
C2_ListConstraintsHold ==
    (Returned /\ self.length >= 1 /\ Len(self.list_constraints) > 0)
        => /\ result.is_list
           /\ Len(result.list) = self.length
           /\ AllListHold(self.list_constraints, result.list)

\* No value of the domain passes all the per-value constraints.
Unsatisfiable ==
    /\ self.domain # NoDomain
    /\ Len(self.constraints) > 0
    /\ \A x \in DomainValues(self.domain) : ~AllHold(self.constraints, x)

(***************************************************************************)
(* C3.  When no value of the domain passes all the per-value constraints,  *)
(* every call of randomize that ends, ends by raising RandomizationError.  *)
(* The code breaks it when the pool was filtered at construction: the pool *)
(* is empty and the draw raises IndexError; and on the exhaustive list     *)
(* branch, which returns a list.                                           *)
(***************************************************************************)
C3_UnsatisfiableRaisesRandomizationError ==
    (CallEnded /\ Unsatisfiable)
        => result.kind = "raise" /\ result.error = "RandomizationError"

(***************************************************************************)
(* C4.  The constructor builds the object only if the caller supplied      *)
(* exactly one of domain, bits and fn.  The code breaks it when all three  *)
(* are supplied: the chained inequality of the assertion is then true.     *)
(***************************************************************************)
C4_ExactlyOneOfDomainBitsFn == Built => Supplied = 1

(***************************************************************************)
(* C5.  Every value a call randomize(temp_constraints) with a non-empty    *)
(* temp_constraints returns satisfies the temporary constraints and the    *)
(* variable's own per-value constraints.  The code breaks it on the        *)
(* exhaustive list branch, as for C1.                                      *)
(***************************************************************************)
C5_TempConstraintsHold ==
    (Returned /\ HasTemp(result.temp_constraints))
        => \A x \in ResultValues :
              /\ AllHold(result.temp_constraints[1], x)
              /\ AllHold(self.constraints, x)

\* The fields of the variable that sampling reads.
Fields(s) ==
    <<s.constraints, s.list_constraints, s.check_constraints, s.domain, s.length,
      s.max_iterations, s.max_domain_size, s.randomizer>>

(***************************************************************************)
(* C6.  randomize leaves the variable as the constructor built it: no step *)
(* of a call, with or without temporary constraints, returning or raising, *)
(* changes constraints, list_constraints, check_constraints, domain,       *)
(* length, max_iterations or max_domain_size (nor the sampler), so a       *)
(* temporary constraint of one call is not among the constraints of a      *)
(* later one.                                                              *)
(***************************************************************************)
C6_RandomizeLeavesVariableUnchanged == [][Built => Fields(self)' = Fields(self)]_vars

\* A call with temporary constraints has ended on a variable with constraints
\* of its own.
C6_Witness ==
    CallEnded /\ HasTemp(result.temp_constraints) /\ Len(self.constraints) > 0

\* A scalar declared by a contiguous range alone, with no constraints.
ContiguousRangeScalar ==
    /\ Built
    /\ Supplied = 1
    /\ given.domain.shape = "range"
    /\ given.domain.step = 1
    /\ self.length = 0
    /\ self.constraints = <<>>
    /\ self.list_constraints = <<>>

(***************************************************************************)
(* C7.  For a scalar variable declared by a contiguous range(start, stop)  *)
(* alone, with no constraints, every value randomize returns lies in       *)
(* start..stop-1, and each value of start..stop-1 is a value the draw of a *)
(* call without temporary constraints can return.                          *)
(***************************************************************************)
C7_RangeResults ==
    ContiguousRangeScalar =>
        /\ Returned => result.scalar \in given.domain.start .. (given.domain.stop - 1)
        /\ (pc = "once" /\ ~HasTemp(frame.temp_constraints)) =>
              \A v \in given.domain.start .. (given.domain.stop - 1) :
                  ENABLED (once_draw /\ result'.kind = "return" /\ result'.scalar = v)

\* Such a variable has returned the largest value of its range.
C7_Witness ==
    ContiguousRangeScalar /\ Returned /\ result.scalar = given.domain.stop - 1

\* A variable declared by bits alone.
BitsDeclared == Built /\ Supplied = 1 /\ given.bits # None

(***************************************************************************)
(* C8.  For a variable declared by bits = b alone, the constructor sets    *)
(* the domain to range(0, 2^b), and every value randomize returns (each    *)
(* element of a list) lies in 0..2^b-1, with or without constraints.       *)
(***************************************************************************)
C8_BitsResults ==
    BitsDeclared =>
        /\ self.domain = PyRange(0, 2 ^ given.bits[1], 1)
        /\ Returned => \A x \in ResultValues : 0 <= x /\ x < 2 ^ given.bits[1]

\* A list of a constrained bits variable has been returned.
C8_Witness ==
    /\ BitsDeclared
    /\ Returned
    /\ self.length > 1
    /\ Len(self.constraints) > 0
    /\ given.bits[1] > 0

\* A variable declared by fn alone, with no constraints.
FnDeclared ==
    /\ Built
    /\ Supplied = 1
    /\ given.fn # None
    /\ self.constraints = <<>>
    /\ self.list_constraints = <<>>

(***************************************************************************)
(* C9.  For a variable declared by fn alone (with or without args) and no  *)
(* constraints, no domain is established and constraint checking is off;   *)
(* a scalar that randomize returns, called without temporary constraints,  *)
(* is the value of the one call of fn on args that the call made, with no *)
(* constraint check; custom_fn(x) = x + 1 with args = (1,) yields 2.       *)
(***************************************************************************)
C9_FnResults ==
    FnDeclared =>
        /\ self.domain = NoDomain
        /\ ~self.check_constraints
        /\ (Returned /\ ~result.is_list /\ ~HasTemp(result.temp_constraints)) =>
              /\ result.scalar \in FnOutcomes(given.fn, given.args)
              /\ stats.draws = 1
              /\ stats.checks = 0
              /\ (given.fn = Some("custom_fn") /\ given.args = Some(<<1>>)) => result.scalar = 2

\* custom_fn with args = (1,) has returned its scalar.
C9_Witness ==
    /\ FnDeclared
    /\ Returned
    /\ ~result.is_list
    /\ ~HasTemp(result.temp_constraints)
    /\ given.fn = Some("custom_fn")
    /\ result.scalar = 2

\* get_domain_size has just returned.
SizeReturned == pc = "idle" /\ result.kind = "size" /\ result.error = ""

\* The number of entries of the domain object.
Entries(d) ==
    CASE d.shape = "range" ->
            Cardinality({k \in 0..(d.stop - d.start) : d.start + k * d.step < d.stop})
      [] d.shape = "dict" -> Cardinality(DOMAIN d.entries)
      [] OTHER -> Cardinality(DOMAIN d.items)

\* The power get_domain_size raises the number of entries to.
Exponent == IF self.length > 1 THEN self.length ELSE 1

\* What get_domain_size returned, from the entries and the length.
DomainSizeOfEntries ==
    SizeReturned =>
        /\ self.domain = NoDomain => result.scalar = 1
        /\ self.domain # NoDomain => result.scalar = Entries(self.domain) ^ Exponent
        /\ (Supplied = 1 /\ given.bits # None) =>
              result.scalar = (2 ^ given.bits[1]) ^ Exponent

(***************************************************************************)
(* C10.  get_domain_size returns 1 when no domain is known; otherwise the  *)
(* number n of entries of the domain the object holds (the length of the   *)
(* range, list or tuple, repeated values counted; the number of keys of a  *)
(* weighted mapping, a sub-range key counted once) when length is 0 or 1,  *)
(* and n^length when length > 1, with n = 2^bits for a variable declared   *)
(* by bits alone; it depends on the domain and the length only and leaves  *)
(* the variable as it was.                                                 *)
(***************************************************************************)
C10_DomainSize ==
    /\ []DomainSizeOfEntries
    /\ [][domain_size => self' = self]_vars

\* The size of a list of length > 1 over a domain of several values.
C10_Witness ==
    SizeReturned /\ self.length > 1 /\ self.domain # NoDomain /\ result.scalar > self.length + 2

\* C10 as stated: n is the cardinality of the domain, the set of legal values.
C10_AsStated ==
    SizeReturned =>
        result.scalar = IF self.domain = NoDomain
                        THEN 1
                        ELSE Cardinality(DomainValues(self.domain)) ^ Exponent

\* get_constraint_domain has just returned or raised.
ConstraintDomainReturned == pc = "idle" /\ result.kind = "constraint_domain"

\* The variable holds a known domain that is not a weighted mapping: a range,
\* a list or a tuple, which can_use_with_constraint accepts.
Eligible ==
    can_use_with_constraint(self.domain) /\ self.domain.shape \in {"range", "list", "tuple"}

\* How many candidates the returned object yields.
CandidateCount(c) == IF c.kind = "domain" THEN DomainLen(c.domain) ELSE Len(c.items)

(***************************************************************************)
(* C11.  For a variable whose domain can be used with the constraint       *)
(* package (a domain is known and is not a weighted mapping),              *)
(* get_constraint_domain returns the domain itself when length = 0, the    *)
(* list of one singleton list per value the domain yields, in order, when  *)
(* length = 1, and when length > 1 the cartesian product of length copies  *)
(* of the domain: every tuple of length values of the domain, as many      *)
(* tuples as the power says; the number of candidates is in every case     *)
(* what get_domain_size returns.                                           *)
(***************************************************************************)
C11_ConstraintDomain ==
    (ConstraintDomainReturned /\ Eligible) =>
        LET c == result.candidates
            xs == DomainSeq(self.domain)
        IN  /\ c.error = ""
            /\ self.length = 0 => c.kind = "domain" /\ c.domain = self.domain
            /\ self.length = 1 =>
                  /\ c.kind = "list"
                  /\ Len(c.items) = Len(xs)
                  /\ \A k \in DOMAIN xs : c.items[k] = <<xs[k]>>
            /\ self.length > 1 =>
                  /\ c.kind = "product"
                  /\ Range(c.items) = [1..self.length -> Range(xs)]
                  /\ Len(c.items) = Len(xs) ^ self.length
            /\ CandidateCount(c) = get_domain_size(self.domain, self.length)

\* The product of a list variable over a domain of several values was returned.
C11_Witness ==
    /\ ConstraintDomainReturned
    /\ Eligible
    /\ self.length > 1
    /\ Len(result.candidates.items) > self.length + 1
    /\ <<1, 0>> \in Range(result.candidates.items)

\* The domain the caller passed is of none of the shapes create_randomizer
\* handles: not an Iterable, or an Iterable that tuple() cannot materialize.
UnrecognizedShape(d) == d.shape \in {"baditer", "other"}

(***************************************************************************)
(* C12.  A constructor call whose domain is of none of the recognized      *)
(* shapes (range, list, tuple, weighted mapping, another iterable that     *)
(* tuple() materializes) raises TypeError, so that no object with such a   *)
(* domain is ever built and open to randomize.  The code breaks it when    *)
(* bits and fn are supplied with the domain: the assertion lets the three  *)
(* through (C4), create_randomizer returns fn before it looks at the       *)
(* domain, and the object is built with the domain it was given.           *)
(***************************************************************************)
C12_UnrecognizedDomainRejected ==
    (pc # "new" /\ UnrecognizedShape(given.domain))
        => pc = "raised" /\ result.kind = "raise" /\ result.error = "TypeError"

\* The counts of a running randomize_once that checks: the checks stay within
\* max_iterations, and every candidate drawn has been checked but the one in
\* hand when it has not passed.
OnceCounts ==
    pc = "once_while" =>
        /\ once.checks = once.iterations
        /\ once.checks <= self.max_iterations
        /\ once.draws = once.checks + (IF once.value_valid THEN 0 ELSE 1)
        /\ once.draws <= self.max_iterations + 1

\* randomize_once raises when, and only when, max_iterations candidates have
\* been checked and the candidate in hand has not passed.
OnceRaise ==
    once_while =>
        (result'.kind = "raise")
            = (~once.value_valid /\ once.checks = self.max_iterations)

(***************************************************************************)
(* C13.  A call of randomize_once with check_constraints true makes at     *)
(* most max_iterations constraint checks and at most max_iterations + 1    *)
(* calls of the sampler: the first draw comes before the budget is looked  *)
(* at and every rejected candidate is followed by a redraw, so the call    *)
(* raises RandomizationError when max_iterations candidates have been      *)
(* checked and rejected, one more having been drawn and never checked.     *)
(***************************************************************************)
C13_OnceBudget ==
    /\ []OnceCounts
    /\ [][OnceRaise]_vars
    /\ [][(once_while /\ result'.kind = "raise")
            => (result'.error = "RandomizationError"
                /\ once.draws = self.max_iterations + 1)]_vars

\* A scalar call has raised after max_iterations >= 1 rejected candidates.
C13_Witness ==
    /\ pc = "idle"
    /\ result.kind = "raise"
    /\ result.error = "RandomizationError"
    /\ self.length = 0
    /\ self.max_iterations >= 1
    /\ stats.checks = self.max_iterations
    /\ stats.draws = self.max_iterations + 1

\* C13 as stated: the sampler is called at most max_iterations times, the
\* first draw included.
C13_AsStated == pc = "once_while" => once.draws <= self.max_iterations

\* A call of randomize is running.
Running == pc \in {"once", "once_while", "for", "list_while"}

\* The most calls of randomize_once one call of randomize makes: one for a
\* scalar or a list of one element, and for each position of a longer list
\* the first sample and one more after each failed whole-list check.
OnceCalls == IF self.length <= 1 THEN 1 ELSE self.length * (self.max_iterations + 1)

\* The work of a call of randomize, running or ended, stays within bounds
\* that depend on length and max_iterations only.
WorkBounds ==
    Built =>
        /\ pc = "once_while" => once.checks <= self.max_iterations
        /\ frame.checks <= self.max_iterations
        /\ frame.checks <= frame.samples
        /\ frame.samples <= self.max_iterations + 1
        /\ stats.checks <= OnceCalls * self.max_iterations
        /\ stats.draws <= OnceCalls * (self.max_iterations + 1)
        /\ stats.list_checks <= self.length * self.max_iterations
        /\ stats.csp_steps <= self.length

\* A whole-list check of the retry strategy.
ListCheck == list_while /\ stats'.list_checks = stats.list_checks + 1

\* Every whole-list check is made on a candidate that a call of randomize_once
\* has just returned: the loop is entered from randomize_once only, and a
\* failed check goes back to randomize_once.
SampleBeforeCheck ==
    /\ (pc # "list_while" /\ pc' = "list_while") => pc \in {"once", "once_while"}
    /\ ListCheck => (frame'.values_valid \/ (pc' = "once" /\ once'.site = "retry"))

(***************************************************************************)
(* C14.  Every call of randomize ends, by returning or by raising,         *)
(* whatever the constraints, the length and max_iterations >= 0, given     *)
(* that each draw and each solver call ends: one call of randomize_once    *)
(* makes at most max_iterations checks; in the retry strategy each         *)
(* position gets at most max_iterations whole-list checks, each on a       *)
(* candidate that a call of randomize_once has just returned; and the      *)
(* totals of a call are bounded by a function of length and                *)
(* max_iterations.                                                         *)
(***************************************************************************)
C14_RandomizeTerminates ==
    /\ []WorkBounds
    /\ [][SampleBeforeCheck]_vars
    /\ Running ~> (pc = "idle")

\* A list call of the retry strategy has spent the whole budget of a position
\* and raised.
C14_Witness ==
    /\ pc = "idle"
    /\ result.kind = "raise"
    /\ result.error = "RandomizationError"
    /\ self.length > 1
    /\ self.max_iterations >= 1
    /\ stats.list_checks = self.max_iterations

\* A call of randomize on a list variable of length > 1 is running.
ListCall == Running /\ self.length > 1

\* The condition of the exhaustive strategy, from the fields of the variable:
\* a whole-list constraint exists, the domain is known and is no weighted
\* mapping, and it has fewer entries than max_domain_size.
ExhaustiveCondition ==
    /\ Len(self.list_constraints) >= 1
    /\ self.domain.shape \in {"range", "list", "tuple"}
    /\ Entries(self.domain) < self.max_domain_size

\* The strategy of a running list call is the one the condition says, and
\* only its steps have been taken.
StrategyAsCondition ==
    ListCall =>
        /\ frame.use_csp = ExhaustiveCondition
        /\ ExhaustiveCondition =>
              pc = "for" /\ stats.draws = 0 /\ stats.checks = 0 /\ stats.list_checks = 0
        /\ ~ExhaustiveCondition => stats.csp_steps = 0

\* Every element is fixed by a step of the strategy the condition says, and
\* the strategy of a call does not change while it runs.
StrategyOfStep ==
    /\ (ListCall /\ frame'.i = frame.i + 1) =>
          IF ExhaustiveCondition
          THEN csp_step /\ stats'.csp_steps = stats.csp_steps + 1
          ELSE list_while /\ frame.values_valid
    /\ (ListCall /\ ListCall') => frame'.use_csp = frame.use_csp

ExhaustiveCall == ListCall /\ frame.use_csp

\* The domain values that extend the list so far to a list passing every
\* whole-list constraint.
Extensions ==
    {x \in DomainValues(self.domain) :
        AllListHold(self.list_constraints, Append(frame.values, x))}

\* After k steps of the exhaustive strategy the list so far has k elements,
\* ends with a domain value and passes every whole-list constraint; and the
\* next step can fix a value if and only if it is one of the extensions.
ExhaustivePrefix ==
    ExhaustiveCall =>
        /\ Len(frame.values) = frame.i
        /\ frame.i <= self.length
        /\ frame.i >= 1 =>
              /\ frame.values[frame.i] \in DomainValues(self.domain)
              /\ AllListHold(self.list_constraints, frame.values)
        /\ frame.i < self.length =>
              \A x \in DomainValues(self.domain) :
                  (x \in Extensions)
                      = ENABLED (csp_step /\ frame'.values = Append(frame.values, x))

\* A step of the exhaustive strategy that fixes an element appends one of the
\* extensions to the list so far.
ExhaustiveStep ==
    (csp_step /\ pc' = "for") =>
        /\ frame'.i = frame.i + 1
        /\ \E x \in Extensions : frame'.values = Append(frame.values, x)

(***************************************************************************)
(* C16.  In the exhaustive list strategy, after every step k with          *)
(* 1 <= k <= length the list so far has exactly k elements, its last       *)
(* element is a value of the domain and the list so far satisfies every    *)
(* whole-list constraint, the one-element list after the first step        *)
(* included; the element of a step is chosen among exactly the domain      *)
(* values x for which the list so far followed by x passes every           *)
(* whole-list constraint.                                                  *)
(***************************************************************************)
C16_ExhaustivePrefixes ==
    /\ []ExhaustivePrefix
    /\ [][ExhaustiveStep]_vars

\* The first step of an exhaustive call has fixed an element, a domain value
\* having been ruled out by the whole-list constraints.
C16_Witness ==
    /\ ExhaustiveCall
    /\ frame.i = 1
    /\ \E x \in DomainValues(self.domain) :
          ~AllListHold(self.list_constraints, <<x>>)

\* A call of the retry strategy is running.
RetryCall == ListCall /\ ~frame.use_csp

\* In a call of the retry strategy the list so far has i elements, no
\* whole-list check is made for the first position, and every prefix of two
\* elements or more passes every whole-list constraint.
RetryPrefix ==
    RetryCall =>
        /\ Len(frame.values) = frame.i
        /\ frame.i = 0 => stats.list_checks = 0
        /\ \A k \in 2..Len(frame.values) :
              AllListHold(self.list_constraints, SubSeq(frame.values, 1, k))

\* The retry strategy fixes an element: the candidate in hand is appended,
\* for the first position with no whole-list check made, for a later one
\* with the list so far followed by the candidate checked and passing.
RetryFix ==
    (RetryCall /\ frame'.i = frame.i + 1) =>
        /\ list_while
        /\ frame'.values = Append(frame.values, frame.new_value)
        /\ frame.i = 0 => frame.checks = 0 /\ stats.list_checks = 0
        /\ (frame.i >= 1 /\ Len(self.list_constraints) > 0) =>
              /\ frame.checks >= 1
              /\ AllListHold(self.list_constraints, Append(frame.values, frame.new_value))

(***************************************************************************)
(* C17.  In the retry list strategy the first element is accepted with no  *)
(* whole-list check, so a one-element list so far that violates a          *)
(* whole-list constraint is kept; at every later position the element is   *)
(* fixed only after the list so far followed by the candidate has passed   *)
(* every whole-list constraint; every prefix of length >= 2 satisfies all  *)
(* the whole-list constraints.                                             *)
(***************************************************************************)
C17_RetryPrefixes ==
    /\ []RetryPrefix
    /\ [][RetryFix]_vars

\* A first element that violates a whole-list constraint has been kept, and
\* a second element fixed after it.
C17_Witness ==
    /\ RetryCall
    /\ frame.i = 2
    /\ ~AllListHold(self.list_constraints, SubSeq(frame.values, 1, 1))

\* Sequence p is the beginning of sequence q.
IsPrefix(p, q) == Len(p) <= Len(q) /\ SubSeq(q, 1, Len(p)) = p

\* A step inside a list call keeps the elements fixed so far and fixes at
\* most one more; the step that ends the call returns the list so far,
\* complete, or raises.
NoBacktrackStep ==
    /\ (ListCall /\ ListCall') =>
          /\ IsPrefix(frame.values, frame'.values)
          /\ Len(frame'.values) <= Len(frame.values) + 1
          /\ frame'.i = Len(frame'.values)
    /\ (ListCall /\ ~ListCall') =>
          \/ /\ result'.kind = "return"
             /\ result'.is_list
             /\ result'.list = frame.values
             /\ Len(frame.values) = self.length
          \/ result'.kind = "raise"

(***************************************************************************)
(* C18.  Both list strategies build the list from left to right and never  *)
(* go back: once the element of position i is fixed, the elements of       *)
(* positions 0..i are the same in every later state of the call and in the *)
(* list it returns; a position that cannot be filled ends the call with a  *)
(* raised error and changes no earlier element.                            *)
(***************************************************************************)
C18_NoBacktracking == [][NoBacktrackStep]_vars

\* A call has raised at a later position, elements having been fixed before.
C18_Witness ==
    /\ pc = "idle"
    /\ result.kind = "raise"
    /\ result.error = "RandomizationError"
    /\ self.length > 1
    /\ stats.csp_steps >= 1

\* A step of an exhaustive call raises if and only if no domain value extends
\* the list so far, and then it raises RandomizationError, with no draw and
\* no check made in the call; nothing else ends an exhaustive call by a raise.
ExhaustiveRaise ==
    /\ (ExhaustiveCall /\ csp_step) => ((result'.kind = "raise") = (Extensions = {}))
    /\ (ExhaustiveCall /\ result'.kind = "raise") =>
          /\ csp_step
          /\ Extensions = {}
          /\ result'.error = "RandomizationError"
          /\ pc' = "idle"
          /\ stats.draws = 0 /\ stats.checks = 0 /\ stats.list_checks = 0
          /\ stats.csp_steps = frame.i

\* An exhaustive call never waits in a retry loop: at every position below
\* length its one step is open, and it is a step of the for loop.
ExhaustiveNoRetry ==
    ExhaustiveCall =>
        /\ pc = "for"
        /\ frame.iterations = 0
        /\ frame.i < self.length => ENABLED csp_step

(***************************************************************************)
(* C19.  In the exhaustive list strategy randomize raises                  *)
(* RandomizationError at the first step at which no domain value extends   *)
(* the list so far to a list passing every whole-list constraint; it does  *)
(* so at that step, with no retry, whatever max_iterations is; and an      *)
(* exhaustive call raises in no other situation.                           *)
(***************************************************************************)
C19_ExhaustiveDeadEnd ==
    /\ []ExhaustiveNoRetry
    /\ [][ExhaustiveRaise]_vars

\* An exhaustive call of a variable with max_iterations >= 1 has raised at its
\* second position.
C19_Witness ==
    /\ pc = "idle"
    /\ result.kind = "raise"
    /\ result.error = "RandomizationError"
    /\ self.length > 1
    /\ UseCsp(self)
    /\ self.max_iterations >= 1
    /\ stats.csp_steps = 1
    /\ stats.draws = 0

\* The constructor took the shortcut: the sampler draws from a pool computed
\* at construction.
ShortcutTaken == Built /\ self.randomizer.kind = "pool"

\* The domain the object holds is a range, a list or a tuple with fewer
\* entries than max_domain_size.
SmallEnumerableDomain ==
    /\ self.domain.shape \in {"range", "list", "tuple"}
    /\ Entries(self.domain) < self.max_domain_size

\* What the shortcut leaves behind: the pool holds exactly the domain values
\* that pass every per-value constraint, check_constraints is off, and a call
\* of randomize without temporary constraints that returns has made no
\* constraint check, one draw for a scalar or a list of one element, and
\* returns pool members (the exhaustive list strategy, which does not use
\* the sampler, aside).
ShortcutEffects ==
    ShortcutTaken =>
        /\ Range(self.randomizer.seq)
              = {x \in DomainValues(self.domain) : AllHold(self.constraints, x)}
        /\ ~self.check_constraints
        /\ (Returned /\ ~HasTemp(result.temp_constraints)) =>
              /\ stats.checks = 0
              /\ self.length <= 1 => stats.draws = 1
              /\ ~(self.length > 1 /\ UseCsp(self)) =>
                    ResultValues \subseteq Range(self.randomizer.seq)

(***************************************************************************)
(* C20.  The constructor takes the shortcut exactly when the variable is   *)
(* declared by a domain (not by bits, not by fn), has at least one         *)
(* constraint, per-value or whole-list, and its domain is a range, list or *)
(* tuple (after materialization) with fewer entries than max_domain_size.  *)
(* When taken, the pool is exactly the set of domain values satisfying     *)
(* every per-value constraint (the whole domain when there are none),      *)
(* check_constraints is off, and a later call of randomize without         *)
(* temporary constraints makes no constraint check; for a scalar or a      *)
(* list of one element it returns a pool member after one draw.            *)
(***************************************************************************)
C20_Shortcut ==
    /\ Built =>
          (ShortcutTaken
              = (/\ given.fn = None
                 /\ given.bits = None
                 /\ Len(self.constraints) + Len(self.list_constraints) > 0
                 /\ SmallEnumerableDomain))
    /\ ShortcutEffects

\* A scalar drawn from a pool that the per-value constraints have narrowed.
C20_Witness ==
    /\ ShortcutTaken
    /\ Returned
    /\ ~HasTemp(result.temp_constraints)
    /\ self.length = 0
    /\ Len(self.constraints) > 0
    /\ \E x \in DomainValues(self.domain) : ~AllHold(self.constraints, x)

\* C20 as stated: the shortcut is taken exactly when per-value constraints
\* exist and the domain is a small range, list or tuple.
C20_AsStated ==
    /\ Built => (ShortcutTaken = (Len(self.constraints) > 0 /\ SmallEnumerableDomain))
    /\ ShortcutEffects

\* The shape of what a call of randomize has returned follows from length: a
\* bare scalar for 0, a list of length elements otherwise.
ShapeByLength ==
    Returned =>
        /\ self.length = 0 => ~result.is_list /\ result.list = <<>>
        /\ self.length >= 1 => result.is_list /\ Len(result.list) = self.length

\* The step that ends a call of randomize by a raise hands no value to the
\* caller, whatever part of a list the call had built.
RaiseReturnsNothing ==
    (Built /\ result'.kind = "raise") =>
        /\ pc' = "idle"
        /\ ~result'.is_list
        /\ result'.list = <<>>
        /\ frame' = NoFrame

(***************************************************************************)
(* C21.  The shape of what randomize returns is determined by length       *)
(* alone: a bare scalar when length = 0, a list of exactly one element     *)
(* when length = 1, a list of exactly N elements when length = N > 1, by   *)
(* either list strategy; a call that fails raises and hands no value to    *)
(* the caller, no partly built list in particular.                         *)
(***************************************************************************)
C21_ResultShape ==
    /\ []ShapeByLength
    /\ [][RaiseReturnsNothing]_vars

\* A list of one element has been returned.
C21_Witness ==
    /\ Returned
    /\ self.length = 1
    /\ result.is_list
    /\ Len(result.list) = 1

\* The variable was built from a range, list or tuple alone.
ExplicitDomain ==
    Built /\ Supplied = 1 /\ given.domain.shape \in {"range", "list", "tuple"}

(***************************************************************************)
(* C22.  For a variable built from a range, list or tuple alone, a range   *)
(* with a step other than 1 included, every value randomize returns (each  *)
(* element of a list) is a member of the declared domain, whether drawn    *)
(* from the range or collection directly or from the filtered pool.  The   *)
(* code breaks it for a range with a step when the sampler draws from the  *)
(* range directly: randrange is given start and stop only, so it returns   *)
(* the values between the members too.                                     *)
(***************************************************************************)
C22_ResultsInDeclaredDomain ==
    (ExplicitDomain /\ Returned) => ResultValues \subseteq DomainValues(given.domain)

====
